---- MODULE Spec2Model ----
(***************************************************************************)
(* Employee attrition prediction app (src/app.py): a Streamlit script.     *)
(* One execution of the script (a "script run") resolves and deserializes  *)
(* the model artifact, renders the form, and, when the button was clicked, *)
(* predicts.  Streamlit executes the script from its first line on the     *)
(* first page load and again on every widget change and button click; the  *)
(* Python process (and with it sys.modules) outlives the script runs.      *)
(***************************************************************************)
EXTENDS Integers, Sequences, FiniteSets, TLC

(***************************************************************************)
(* Bounds of the model.                                                    *)
(***************************************************************************)
\* script runs explored per process
MaxRuns == 3
\* widget changes explored per browser session
MaxEdits == 1

(***************************************************************************)
(* File names.  A name is its stem and its extension, so that              *)
(* str.endswith(".joblib") is a test the model computes.                   *)
(***************************************************************************)
FileName(stem, ext) == [stem |-> stem, ext |-> ext]

MODEL_CANDIDATES ==
    << FileName("attrition_model", ".joblib"),
       FileName("employee-attrition", ".joblib"),
       FileName("employee-attrition", ".pkl"),
       FileName("attrition_model", ".pkl") >>

CandidateIndex == 1..Len(MODEL_CANDIDATES)

endswith(name, suffix) == name.ext = suffix

\* the file name as the text Python prints
NameText(name) == name.stem \o name.ext

(***************************************************************************)
(* Serialized artifacts.  An artifact references helper classes by         *)
(* (module, attribute) in the order the unpickler resolves them, followed  *)
(* by the object's own reconstruction.                                     *)
(***************************************************************************)
Symbol(mod, attr, dotted) == [mod |-> mod, attr |-> attr, dotted |-> dotted]

\* a private sklearn helper that was removed from its module
RemainderCols == Symbol("sklearn.compose._column_transformer", "_RemainderColsList", FALSE)
\* a second helper missing from another module
LossHelper == Symbol("sklearn._loss.loss", "__pyx_unpickle_CyHalfBinomialLoss", FALSE)
\* a nested class: the unpickler looks "Outer.Inner" up attribute by attribute
NestedHelper == Symbol("sklearn.tree._tree", "Tree.Node", TRUE)
\* a helper of a module that cannot be imported under the name its repr shows
OrphanHelper == Symbol("train_utils", "FeatureSelector", FALSE)

ImportableModules ==
    { "sklearn.compose._column_transformer", "sklearn._loss.loss", "sklearn.tree._tree" }

Artifact(refs, body) == [refs |-> refs, body |-> body]

ArtifactKinds ==
    { Artifact(<< >>, "ok"),
      Artifact(<< >>, "UnpicklingError"),
      Artifact(<< >>, "AttributeError"),
      Artifact(<< RemainderCols >>, "ok"),
      Artifact(<< RemainderCols, LossHelper >>, "ok"),
      Artifact(<< NestedHelper >>, "ok"),
      Artifact(<< OrphanHelper >>, "ok") }

(***************************************************************************)
(* Exception messages, as the sequence of their text pieces.               *)
(***************************************************************************)
CantGetAttribute(sym) ==
    << "Can't get attribute '", sym.attr, "' on <module '", sym.mod, "' from '", "site-packages", "'>" >>

NoAttributeMessage == << "'", "Pipeline", "' object has no attribute '", "_final_estimator", "'" >>

UnpicklingMessage == << "invalid load key, '", "x", "'." >>

NoModuleMessage(mod) == << "No module named '", mod, "'" >>

Exc(type, msg) == [type |-> type, msg |-> msg]

\* a piece matched by [^']+
IsQuotedName(piece) == piece \notin { "", "'" }

\* re.search(r"Can't get attribute '(?P<attr>[^']+)' on <module '(?P<mod>[^']+)'", msg)
ShimMatches(msg) ==
    { i \in 1..Len(msg) :
        /\ i + 4 <= Len(msg)
        /\ msg[i] = "Can't get attribute '"
        /\ IsQuotedName(msg[i + 1])
        /\ msg[i + 2] = "' on <module '"
        /\ IsQuotedName(msg[i + 3])
        /\ msg[i + 4] \in { "' from '", "'>", "' (built-in)>" } }

re_search(msg) ==
    IF ShimMatches(msg) = {}
    THEN [found |-> FALSE, attr |-> "", mod |-> ""]
    ELSE LET i == CHOOSE j \in ShimMatches(msg) : \A k \in ShimMatches(msg) : j <= k
         IN  [found |-> TRUE, attr |-> msg[i + 1], mod |-> msg[i + 3]]

(***************************************************************************)
(* The unpickler's symbol lookup against the live module namespaces.       *)
(* registry: the (module, attribute) pairs setattr has added.              *)
(***************************************************************************)
\* getattr walks a dotted name one attribute at a time, so a placeholder
\* stored under the dotted name itself is never found
Resolves(sym, registry) == ~sym.dotted /\ << sym.mod, sym.attr >> \in registry

FirstMissing(refs, registry) ==
    LET missing == { i \in 1..Len(refs) : ~Resolves(refs[i], registry) }
    IN  IF missing = {} THEN 0 ELSE CHOOSE i \in missing : \A j \in missing : i <= j

\* joblib.load(found) / pickle.load(f): the outcome of one deserialization
Deserialize(artifact, registry) ==
    LET i == FirstMissing(artifact.refs, registry)
    IN  IF i # 0
        THEN [ok |-> FALSE, exc |-> Exc("AttributeError", CantGetAttribute(artifact.refs[i]))]
        ELSE IF artifact.body = "ok"
        THEN [ok |-> TRUE, exc |-> Exc("", << >>)]
        ELSE IF artifact.body = "AttributeError"
        THEN [ok |-> FALSE, exc |-> Exc("AttributeError", NoAttributeMessage)]
        ELSE [ok |-> FALSE, exc |-> Exc("UnpicklingError", UnpicklingMessage)]

(***************************************************************************)
(* The form: one widget per Python variable, in the order the script       *)
(* creates them.                                                           *)
(***************************************************************************)
number_input(min_value, has_max, max_value, value) ==
    [kind |-> "number_input", dtype |-> "int", min_value |-> min_value, has_max |-> has_max,
     max_value |-> max_value, value |-> value, options |-> << >>]

\* dtype: the Python type of the option literals
selectbox(dtype, options) ==
    [kind |-> "selectbox", dtype |-> dtype, min_value |-> 0, has_max |-> FALSE,
     max_value |-> 0, value |-> 0, options |-> options]

Widget(name, spec) == [name |-> name, spec |-> spec]

Col1Widgets ==
    << Widget("Age", number_input(18, TRUE, 60, 30)),
       Widget("DailyRate", number_input(0, FALSE, 0, 800)),
       Widget("DistanceFromHome", number_input(0, FALSE, 0, 5)),
       Widget("Education", selectbox("int", << 1, 2, 3, 4, 5 >>)),
       Widget("EnvironmentSatisfaction", selectbox("int", << 1, 2, 3, 4 >>)),
       Widget("HourlyRate", number_input(0, FALSE, 0, 60)),
       Widget("JobInvolvement", selectbox("int", << 1, 2, 3, 4 >>)),
       Widget("JobLevel", selectbox("int", << 1, 2, 3, 4, 5 >>)) >>

Col2Widgets ==
    << Widget("JobSatisfaction", selectbox("int", << 1, 2, 3, 4 >>)),
       Widget("MonthlyIncome", number_input(1000, TRUE, 20000, 5000)),
       Widget("MonthlyRate", number_input(1000, TRUE, 30000, 10000)),
       Widget("NumCompaniesWorked", number_input(0, FALSE, 0, 2)),
       Widget("PercentSalaryHike", number_input(0, FALSE, 0, 10)),
       Widget("PerformanceRating", selectbox("int", << 1, 2, 3, 4 >>)),
       Widget("RelationshipSatisfaction", selectbox("int", << 1, 2, 3, 4 >>)),
       Widget("StockOptionLevel", selectbox("int", << 0, 1, 2, 3 >>)) >>

Col3Widgets ==
    << Widget("TotalWorkingYears", number_input(0, FALSE, 0, 5)),
       Widget("TrainingTimesLastYear", number_input(0, FALSE, 0, 2)),
       Widget("WorkLifeBalance", selectbox("int", << 1, 2, 3, 4 >>)),
       Widget("YearsAtCompany", number_input(0, FALSE, 0, 3)),
       Widget("YearsInCurrentRole", number_input(0, FALSE, 0, 2)),
       Widget("YearsSinceLastPromotion", number_input(0, FALSE, 0, 1)),
       Widget("YearsWithCurrManager", number_input(0, FALSE, 0, 2)),
       Widget("BusinessTravel", selectbox("str", << "Travel_Rarely", "Travel_Frequently", "Non-Travel" >>)),
       Widget("Department", selectbox("str", << "Sales", "Research & Development", "Human Resources" >>)),
       Widget("EducationField", selectbox("str", << "Life Sciences", "Medical", "Marketing",
                                            "Technical Degree", "Human Resources", "Other" >>)),
       Widget("Gender", selectbox("str", << "Male", "Female" >>)),
       Widget("JobRole", selectbox("str", << "Sales Executive", "Research Scientist", "Laboratory Technician",
                                     "Manufacturing Director", "Healthcare Representative",
                                     "Manager", "Sales Representative", "Research Director",
                                     "Human Resources" >>)),
       Widget("MaritalStatus", selectbox("str", << "Single", "Married", "Divorced" >>)),
       Widget("OverTime", selectbox("str", << "Yes", "No" >>)) >>

Widgets == Col1Widgets \o Col2Widgets \o Col3Widgets

WidgetNames == { Widgets[i].name : i \in 1..Len(Widgets) }

WidgetIndex(name) == CHOOSE i \in 1..Len(Widgets) : Widgets[i].name = name

WidgetSpecs == [name \in WidgetNames |-> Widgets[WidgetIndex(name)].spec]

SpecOf(name) == WidgetSpecs[name]

\* what a widget returns before the user touches it: `value`, or the first option
DefaultValue(name) ==
    IF SpecOf(name).kind = "number_input" THEN SpecOf(name).value ELSE SpecOf(name).options[1]

\* the values the user may leave in a widget (the widget enforces them)
Allowed(name, v) ==
    LET w == SpecOf(name)
    IN  IF w.kind = "number_input"
        THEN v >= w.min_value /\ (w.has_max => v <= w.max_value)
        ELSE \E i \in 1..Len(w.options) : w.options[i] = v

\* the values a user sets in the explored sessions: a typed age, the lowest
\* number, the last option
EditChoices ==
    [name \in WidgetNames |->
        LET w == SpecOf(name)
        IN  IF w.kind = "selectbox" THEN { w.options[Len(w.options)] }
            ELSE IF name = "Age" THEN { 45 }
            ELSE { w.min_value }]

DefaultWidgets == [name \in WidgetNames |-> DefaultValue(name)]

(***************************************************************************)
(* input_data: the one-row DataFrame, column by column.                    *)
(***************************************************************************)
Column(col, var) == [col |-> col, var |-> var]

InputColumns ==
    << Column("Age", "Age"),
       Column("DailyRate", "DailyRate"),
       Column("DistanceFromHome", "DistanceFromHome"),
       Column("Education", "Education"),
       Column("EnvironmentSatisfaction", "EnvironmentSatisfaction"),
       Column("HourlyRate", "HourlyRate"),
       Column("JobInvolvement", "JobInvolvement"),
       Column("JobLevel", "JobLevel"),
       Column("JobSatisfaction", "JobSatisfaction"),
       Column("MonthlyIncome", "MonthlyIncome"),
       Column("MonthlyRate", "MonthlyRate"),
       Column("NumCompaniesWorked", "NumCompaniesWorked"),
       Column("PercentSalaryHike", "PercentSalaryHike"),
       Column("PerformanceRating", "PerformanceRating"),
       Column("RelationshipSatisfaction", "RelationshipSatisfaction"),
       Column("StockOptionLevel", "StockOptionLevel"),
       Column("TotalWorkingYears", "TotalWorkingYears"),
       Column("TrainingTimesLastYear", "TrainingTimesLastYear"),
       Column("WorkLifeBalance", "WorkLifeBalance"),
       Column("YearsAtCompany", "YearsAtCompany"),
       Column("YearsInCurrentRole", "YearsInCurrentRole"),
       Column("YearsSinceLastPromotion", "YearsSinceLastPromotion"),
       Column("YearsWithCurrManager", "YearsWithCurrManager"),
       Column("BusinessTravel", "BusinessTravel"),
       Column("Department", "Department"),
       Column("EducationField", "EducationField"),
       Column("Gender", "Gender"),
       Column("JobRole", "JobRole"),
       Column("MaritalStatus", "MaritalStatus"),
       Column("OverTime", "OverTime") >>

ColumnNames == { InputColumns[i].col : i \in 1..Len(InputColumns) }

ColumnVars ==
    [col \in ColumnNames |->
        InputColumns[CHOOSE i \in 1..Len(InputColumns) : InputColumns[i].col = col].var]

ColumnVar(col) == ColumnVars[col]

\* the Age column fed from the widget's default instead of its value
BuildInputDataStaleAge(w) ==
    [col \in ColumnNames |-> IF col = "Age" THEN DefaultValue("Age") ELSE w[ColumnVar(col)]]

\* pd.DataFrame([{...}]) over the current widget values
BuildInputData(w) == [col \in ColumnNames |-> w[ColumnVar(col)]]

(***************************************************************************)
(* The classifier: an external collaborator.  What predict and             *)
(* predict_proba return (or raise) is the environment's choice.            *)
(***************************************************************************)
IntLabel(n) == [ty |-> "int", n |-> n, s |-> ""]
StrLabel(s) == [ty |-> "str", n |-> 0, s |-> s]

Labels == { IntLabel(0), IntLabel(1), StrLabel("Yes"), StrLabel("No"), StrLabel("1") }

\* Python's ==: a number and a string are never equal
EqStr(label, s) == label.ty = "str" /\ label.s = s
EqInt(label, n) == label.ty = "int" /\ label.n = n

\* probability vectors [p(class 0), p(class 1)] in thousandths; no value of
\* the set is a rounding tie that binary floating point decides
ProbaVectors == { << 730, 270 >>, << 400, 600 >>, << 875, 125 >>, << 4, 996 >> }

ProbaVectorsAreExact == \A v \in ProbaVectors : v[2] % 10 = 5 => v[2] % 125 = 0

PredictErrors ==
    { Exc("ValueError", << "columns are missing: {'", "Over18", "'}" >>),
      Exc("AttributeError", << "'", "_RemainderColsList", "' object has no attribute '", "predict", "'" >>) }

PredictProbaErrors ==
    { Exc("AttributeError", << "predict_proba is not available when ", "probability=False" >>) }

\* f"{prob:.2f}": two decimals, round-half-even on the thousandths
Format2f(p) ==
    LET q == p \div 10
        r == p % 10
        h == IF r > 5 \/ (r = 5 /\ q % 2 = 1) THEN q + 1 ELSE q
    IN  ToString(h \div 100) \o "." \o ToString((h \div 10) % 10) \o ToString(h % 10)

(***************************************************************************)
(* What the page shows: st.error / st.warning / st.success elements, each  *)
(* with its text in pieces.                                                *)
(***************************************************************************)
Element(kind, text) == [kind |-> kind, text |-> text]

NoModelFound ==
    Element("error",
            << "No trained model found. Place one of the model files in the app folder: '",
               "attrition_model.joblib", "', '", "employee-attrition.joblib", "', '",
               "employee-attrition.pkl", "', or '", "attrition_model.pkl", "'." >>)

JoblibLoadFailed(name, e) ==
    Element("error", << "Failed to load joblib model '", NameText(name), "': " >> \o e.msg)

LoadFailed(name, e) ==
    Element("error", << "Failed to load model '", NameText(name), "': " >> \o e.msg)

ShimFailed(attr, mod, e) ==
    Element("error", << "Failed to create compatibility shim for '", attr, "' in module '", mod, "': " >> \o e.msg)

ShimWarning(attr, mod) ==
    Element("warning", << "Compatibility shim: created placeholder ", attr, " in module ", mod,
                          "; retrying model load." >>)

FormRendered == Element("form", << "Enter Employee Details" >>)

LikelyToLeave(prob) ==
    Element("error", << "The employee is **", "likely to leave", "**. (Probability: ", Format2f(prob), ")" >>)

LikelyToStay(prob) ==
    Element("success", << "The employee is **", "likely to stay", "**. (Leave Probability: ", Format2f(prob), ")" >>)

PredictionFailed(e) == Element("error", << "Prediction failed: " >> \o e.msg)

(***************************************************************************)
(* State.                                                                  *)
(***************************************************************************)
VARIABLES
    disk,         \* the app folder: which candidates exist, and the artifact they hold
    registry,     \* (module, attribute) placeholders set in sys.modules: process-wide
    runs,         \* script runs started in this process
    edits,        \* widget changes made in this browser session
    widgets,      \* the session's widget values
    clicked,      \* st.button returns True in this script run
    pc,           \* where the script run is
    model,        \* the script's `model`
    found,        \* the script's `found`
    m,            \* the regex match of the caught AttributeError
    attempts,     \* deserializations started in this script run
    placeholders, \* placeholder classes registered in this script run
    input_data,   \* the script's `input_data`
    screen,       \* elements shown by this script run
    shown_data,   \* st.dataframe elements shown by this script run
    prediction,   \* the script's `prediction`
    proba,        \* what predict_proba returned in this script run
    caught,       \* the exception the prediction's `except Exception as e` caught
    failures      \* predictions that raised, so far in this process

vars == << disk, registry, runs, edits, widgets, clicked, pc, model, found, m,
           attempts, placeholders, input_data, screen, shown_data, prediction,
           proba, caught, failures >>

None == FileName("", "")

NoModel == [loaded |-> FALSE, file |-> None, loader |-> "", run |-> 0]

\* the object a successful deserialization returns: a new object per load
LoadedModel(name, loader, run) == [loaded |-> TRUE, file |-> name, loader |-> loader, run |-> run]

NoMatch == [found |-> FALSE, attr |-> "", mod |-> ""]

NoLabel == [ty |-> "", n |-> 0, s |-> ""]

NoExc == Exc("", << >>)

CandidateNames == { MODEL_CANDIDATES[i] : i \in CandidateIndex }

\* every candidate file in the folder is an export of the same training run:
\* the script reads no file but the one it selects
AppFolders == [present : SUBSET CandidateNames, artifact : ArtifactKinds]

TypeOK ==
    /\ disk \in AppFolders
    /\ runs \in 1..MaxRuns
    /\ edits \in 0..MaxEdits
    /\ clicked \in BOOLEAN
    /\ pc \in { "start", "load", "shim", "render", "predict", "idle", "stopped" }
    /\ attempts \in 0..2
    /\ placeholders \in 0..1

Init ==
    /\ disk \in AppFolders
    /\ registry = {}
    /\ runs = 1
    /\ edits = 0
    /\ widgets = DefaultWidgets
    /\ clicked = FALSE
    /\ pc = "start"
    /\ model = NoModel
    /\ found = None
    /\ m = NoMatch
    /\ attempts = 0
    /\ placeholders = 0
    /\ input_data = << >>
    /\ screen = << >>
    /\ shown_data = << >>
    /\ prediction = NoLabel
    /\ proba = << >>
    /\ caught = NoExc
    /\ failures = 0

(***************************************************************************)
(* The script, top to bottom.                                              *)
(***************************************************************************)
exists(folder, name) == name \in folder.present

\* the loop without its break: the last existing candidate wins
FindModelWithoutBreak(folder) ==
    LET hits == { i \in CandidateIndex : exists(folder, MODEL_CANDIDATES[i]) }
    IN  IF hits = {} THEN None
        ELSE MODEL_CANDIDATES[CHOOSE i \in hits : \A j \in hits : i >= j]

\* for fname in MODEL_CANDIDATES: if os.path.exists(fname): found = fname; break
FindModel(folder) ==
    LET hits == { i \in CandidateIndex : exists(folder, MODEL_CANDIDATES[i]) }
    IN  IF hits = {} THEN None
        ELSE MODEL_CANDIDATES[CHOOSE i \in hits : \A j \in hits : i <= j]

\* every candidate is given to joblib.load
UsesJoblibAlways(name) == TRUE

UsesJoblib(name) == endswith(name, ".joblib")

\* the script without the st.stop() of line 28
ResolveWithoutStop ==
    /\ pc = "start"
    /\ model' = NoModel
    /\ found' = FindModel(disk)
    /\ screen' = IF found' = None THEN Append(screen, NoModelFound) ELSE screen
    /\ pc' = "load"
    /\ UNCHANGED << disk, registry, runs, edits, widgets, clicked, m, attempts,
                    placeholders, input_data, shown_data, prediction, proba, caught,
                    failures >>

\* model = None; found = ...; if found is None: st.error(...); st.stop()
Resolve ==
    /\ pc = "start"
    /\ model' = NoModel
    /\ found' = FindModel(disk)
    /\ IF found' = None
       THEN screen' = Append(screen, NoModelFound) /\ pc' = "stopped"
       ELSE screen' = screen /\ pc' = "load"
    /\ UNCHANGED << disk, registry, runs, edits, widgets, clicked, m, attempts,
                    placeholders, input_data, shown_data, prediction, proba, caught,
                    failures >>

\* the script without the st.stop() calls of lines 59 and 66
LoadWithoutStop ==
    /\ pc = "load"
    /\ attempts' = attempts + 1
    /\ LET r == Deserialize(disk.artifact, registry)
       IN  IF r.ok
           THEN /\ model' = LoadedModel(found, IF UsesJoblib(found) THEN "joblib" ELSE "pickle", runs)
                /\ pc' = "render"
                /\ UNCHANGED << m, screen >>
           ELSE IF UsesJoblib(found) /\ r.exc.type = "AttributeError" /\ re_search(r.exc.msg).found
           THEN /\ m' = re_search(r.exc.msg)
                /\ pc' = "shim"
                /\ UNCHANGED << model, screen >>
           ELSE /\ screen' = Append(screen, LoadFailed(found, r.exc))
                /\ pc' = "render"
                /\ UNCHANGED << m, model >>
    /\ UNCHANGED << disk, registry, runs, edits, widgets, clicked, found,
                    placeholders, input_data, shown_data, prediction, proba, caught,
                    failures >>

\* the first deserialization: joblib.load for .joblib, pickle.load otherwise.
\* st.stop() ends the script run by raising a BaseException, which no
\* `except Exception` of the script catches: pc = "stopped"
Load ==
    /\ pc = "load"
    /\ attempts' = attempts + 1
    /\ LET r == Deserialize(disk.artifact, registry)
       IN  IF UsesJoblib(found)
           THEN IF r.ok
                THEN /\ model' = LoadedModel(found, "joblib", runs)
                     /\ pc' = "render"
                     /\ UNCHANGED << m, screen >>
                ELSE IF r.exc.type = "AttributeError"
                THEN /\ m' = re_search(r.exc.msg)
                     /\ IF m'.found
                        THEN pc' = "shim" /\ screen' = screen
                        ELSE /\ screen' = Append(screen, JoblibLoadFailed(found, r.exc))
                             /\ pc' = "stopped"
                     /\ model' = model
                ELSE /\ screen' = Append(screen, LoadFailed(found, r.exc))
                     /\ pc' = "stopped"
                     /\ UNCHANGED << m, model >>
           ELSE IF r.ok
                THEN /\ model' = LoadedModel(found, "pickle", runs)
                     /\ pc' = "render"
                     /\ UNCHANGED << m, screen >>
                ELSE /\ screen' = Append(screen, LoadFailed(found, r.exc))
                     /\ pc' = "stopped"
                     /\ UNCHANGED << m, model >>
    /\ UNCHANGED << disk, registry, runs, edits, widgets, clicked, found,
                    placeholders, input_data, shown_data, prediction, proba, caught,
                    failures >>

\* importlib.import_module(missing_mod)
import_module(mod) ==
    IF mod \in ImportableModules
    THEN [ok |-> TRUE, exc |-> Exc("", << >>)]
    ELSE [ok |-> FALSE, exc |-> Exc("ModuleNotFoundError", NoModuleMessage(mod))]

\* the handler retrying for as long as the failure matches the pattern
ShimRetryLoop ==
    /\ pc = "shim"
    /\ LET mod == import_module(m.mod)
       IN  IF ~mod.ok
           THEN /\ screen' = Append(screen, ShimFailed(m.attr, m.mod, mod.exc))
                /\ pc' = "stopped"
                /\ UNCHANGED << registry, placeholders, attempts, model, m >>
           ELSE /\ registry' = registry \cup { << m.mod, m.attr >> }
                /\ placeholders' = IF << m.mod, m.attr >> \in registry THEN placeholders
                                   ELSE placeholders + 1
                /\ attempts' = attempts + 1
                /\ LET r == Deserialize(disk.artifact, registry')
                   IN  IF r.ok
                       THEN /\ model' = LoadedModel(found, "joblib", runs)
                            /\ screen' = Append(screen, ShimWarning(m.attr, m.mod))
                            /\ pc' = "render"
                            /\ m' = m
                       ELSE IF re_search(r.exc.msg).found
                       THEN /\ model' = model
                            /\ screen' = Append(screen, ShimWarning(m.attr, m.mod))
                            /\ pc' = "shim"
                            /\ m' = re_search(r.exc.msg)
                       ELSE /\ model' = model
                            /\ screen' = screen \o << ShimWarning(m.attr, m.mod),
                                                      ShimFailed(m.attr, m.mod, r.exc) >>
                            /\ pc' = "stopped"
                            /\ m' = m
    /\ UNCHANGED << disk, runs, edits, widgets, clicked, found, input_data,
                    shown_data, prediction, proba, caught, failures >>

\* the handler of the matching AttributeError: placeholder, warning, one retry
Shim ==
    /\ pc = "shim"
    /\ LET mod == import_module(m.mod)
       IN  IF ~mod.ok
           THEN /\ screen' = Append(screen, ShimFailed(m.attr, m.mod, mod.exc))
                /\ pc' = "stopped"
                /\ UNCHANGED << registry, placeholders, attempts, model >>
           ELSE /\ registry' = registry \cup { << m.mod, m.attr >> }
                /\ placeholders' = placeholders + 1
                /\ attempts' = attempts + 1
                /\ LET r == Deserialize(disk.artifact, registry')
                   IN  IF r.ok
                       THEN /\ model' = LoadedModel(found, "joblib", runs)
                            /\ screen' = Append(screen, ShimWarning(m.attr, m.mod))
                            /\ pc' = "render"
                       ELSE /\ model' = model
                            /\ screen' = screen \o << ShimWarning(m.attr, m.mod),
                                                      ShimFailed(m.attr, m.mod, r.exc) >>
                            /\ pc' = "stopped"
    /\ UNCHANGED << disk, runs, edits, widgets, clicked, found, m, input_data,
                    shown_data, prediction, proba, caught, failures >>

\* page title, the three columns of widgets, input_data, and the button
Render ==
    /\ pc = "render"
    /\ screen' = Append(screen, FormRendered)
    /\ input_data' = BuildInputData(widgets)
    /\ pc' = IF clicked THEN "predict" ELSE "idle"
    /\ UNCHANGED << disk, registry, runs, edits, widgets, clicked, model, found, m,
                    attempts, placeholders, shown_data, prediction, proba, caught,
                    failures >>

\* only the integer encoding is honoured
IsLeaveIntegerOnly(label) == EqInt(label, 1)

\* prediction == "Yes" or prediction == 1
IsLeave(label) == EqStr(label, "Yes") \/ EqInt(label, 1)

\* model.predict_proba(input_data)[0][0]
StayProbability(vec) == vec[1]

\* model.predict_proba(input_data)[0][1]
LeaveProbability(vec) == vec[2]

NoneTypeError == Exc("AttributeError", << "'", "NoneType", "' object has no attribute '", "predict", "'" >>)

\* the prediction without its try/except: an exception ends the script run
PredictUncaught ==
    /\ pc = "predict"
    /\ \/ /\ model.loaded
          /\ \E label \in Labels, vec \in ProbaVectors :
                /\ prediction' = label
                /\ proba' = vec
                /\ screen' = Append(screen, IF IsLeave(label)
                                            THEN LikelyToLeave(LeaveProbability(vec))
                                            ELSE LikelyToStay(LeaveProbability(vec)))
                /\ shown_data' = Append(shown_data, input_data)
          /\ pc' = "idle"
          /\ UNCHANGED << caught, failures >>
       \/ /\ \E e \in PredictErrors :
                /\ caught' = e
                /\ screen' = Append(screen, Element("exception", e.msg))
          /\ failures' = failures + 1
          /\ pc' = "stopped"
          /\ UNCHANGED << prediction, proba, shown_data >>
    /\ UNCHANGED << disk, registry, runs, edits, widgets, clicked, model, found, m,
                    attempts, placeholders, input_data >>

\* the body of `if st.button(...)`: try ... except Exception
Predict ==
    /\ pc = "predict"
    /\ \/ /\ model.loaded
          /\ \E label \in Labels, vec \in ProbaVectors :
                LET prob == LeaveProbability(vec)
                IN  /\ prediction' = label
                    /\ proba' = vec
                    /\ screen' = Append(screen, IF IsLeave(label)
                                                THEN LikelyToLeave(prob)
                                                ELSE LikelyToStay(prob))
                    /\ shown_data' = Append(shown_data, input_data)
          /\ UNCHANGED << caught, failures >>
       \/ \* model.predict raises
          /\ \E e \in IF model.loaded THEN PredictErrors ELSE { NoneTypeError } :
                /\ caught' = e
                /\ screen' = Append(screen, PredictionFailed(e))
          /\ failures' = failures + 1
          /\ UNCHANGED << prediction, proba, shown_data >>
       \/ \* model.predict returns and model.predict_proba raises
          /\ model.loaded
          /\ \E label \in Labels, e \in PredictProbaErrors :
                /\ prediction' = label
                /\ caught' = e
                /\ screen' = Append(screen, PredictionFailed(e))
          /\ failures' = failures + 1
          /\ UNCHANGED << proba, shown_data >>
    /\ pc' = "idle"
    /\ UNCHANGED << disk, registry, runs, edits, widgets, clicked, model, found, m,
                    attempts, placeholders, input_data >>

(***************************************************************************)
(* The user.  Every interaction makes Streamlit run the script again, in   *)
(* a fresh namespace, with the page emptied.                               *)
(***************************************************************************)
Rerun(button) ==
    /\ runs < MaxRuns
    /\ runs' = runs + 1
    /\ clicked' = button
    /\ pc' = "start"
    /\ model' = NoModel
    /\ found' = None
    /\ m' = NoMatch
    /\ attempts' = 0
    /\ placeholders' = 0
    /\ input_data' = << >>
    /\ screen' = << >>
    /\ shown_data' = << >>
    /\ prediction' = NoLabel
    /\ proba' = << >>
    /\ caught' = NoExc
    /\ UNCHANGED << disk, registry, failures >>

EditWidget ==
    /\ pc = "idle"
    /\ edits < MaxEdits
    /\ \E name \in WidgetNames : \E v \in EditChoices[name] :
          /\ Allowed(name, v)
          /\ v # widgets[name]
          /\ widgets' = [widgets EXCEPT ![name] = v]
    /\ edits' = edits + 1
    /\ Rerun(FALSE)

ClickPredict ==
    /\ pc = "idle"
    /\ UNCHANGED << widgets, edits >>
    /\ Rerun(TRUE)

\* a browser reload: a new session of the same process
Reload ==
    /\ pc \in { "idle", "stopped" }
    /\ widgets' = DefaultWidgets
    /\ edits' = 0
    /\ Rerun(FALSE)

Next ==
    \/ Resolve
    \/ Load
    \/ Shim
    \/ Render
    \/ Predict
    \/ EditWidget
    \/ ClickPredict
    \/ Reload

Spec == Init /\ [][Next]_vars

(***************************************************************************)
(* Helpers of the properties.                                              *)
(***************************************************************************)
Shows(element) == \E k \in 1..Len(screen) : screen[k] = element

Contains(text, piece) == \E k \in 1..Len(text) : text[k] = piece

EndsWith(text, tail) ==
    /\ Len(text) >= Len(tail)
    /\ SubSeq(text, Len(text) - Len(tail) + 1, Len(text)) = tail

LastShown == screen[Len(screen)]

Decisions == { k \in 1..Len(screen) :
                 Contains(screen[k].text, "likely to leave") \/ Contains(screen[k].text, "likely to stay") }

\* this script run has got as far as the form
FormReached == Shows(FormRendered) \/ pc \in { "predict", "idle" }

\* this script run has shown the result of a prediction
Predicted == pc = "idle" /\ clicked /\ caught = NoExc

HaltedWithError ==
    /\ pc = "stopped"
    /\ screen # << >>
    /\ LastShown.kind = "error"

\* the candidate the declared order prefers among those in the folder
IsEarliestPresent(i) ==
    /\ MODEL_CANDIDATES[i] \in disk.present
    /\ \A j \in 1..(i - 1) : MODEL_CANDIDATES[j] \notin disk.present

(***************************************************************************)
(* C1 -- resolver priority.  Whatever non-empty subset of the four         *)
(* candidates is in the folder, the file the script selects, and the file  *)
(* the loaded model came from, is the present candidate earliest in the    *)
(* declared order; a later candidate is never loaded while an earlier one  *)
(* exists.                                                                 *)
(***************************************************************************)
C1_ResolverPriority ==
    \A i \in CandidateIndex :
        IsEarliestPresent(i) =>
            /\ pc # "start" => found = MODEL_CANDIDATES[i]
            /\ attempts > 0 => found = MODEL_CANDIDATES[i]
            /\ model.loaded => model.file = MODEL_CANDIDATES[i]

C1_Witness ==
    /\ disk.present = { MODEL_CANDIDATES[2], MODEL_CANDIDATES[3], MODEL_CANDIDATES[4] }
    /\ model.loaded
    /\ model.file = FileName("employee-attrition", ".joblib")

(***************************************************************************)
(* C2 -- resolver fatality.  With no candidate in the folder every script  *)
(* run halts with one error that names each of the declared candidate      *)
(* file names; nothing is deserialized, and neither the form nor a         *)
(* prediction is reached.                                                  *)
(***************************************************************************)
C2_ResolverFatality ==
    disk.present = {} =>
        /\ pc \in { "start", "stopped" }
        /\ pc = "stopped" =>
              /\ Len(screen) = 1
              /\ screen[1].kind = "error"
              /\ \A i \in CandidateIndex :
                    Contains(screen[1].text, NameText(MODEL_CANDIDATES[i]))
        /\ attempts = 0
        /\ ~model.loaded
        /\ ~FormReached
        /\ shown_data = << >>
        /\ Decisions = {}

C2_Witness ==
    /\ disk.present = {}
    /\ pc = "stopped"
    /\ runs = 2

(***************************************************************************)
(* C3 -- shim retry bound.                                                 *)
(* As claimed: once the first deserialization has failed with a message    *)
(* matching the pattern and the handler has run, exactly one placeholder   *)
(* has been registered and exactly one retry has been made.                *)
(***************************************************************************)
C3_ExactlyOnePlaceholderAndRetry ==
    (m.found /\ pc # "shim") => (placeholders = 1 /\ attempts = 2)

(***************************************************************************)
(* C3, amended -- in one script run at most one placeholder is registered  *)
(* and at most one retry is made: exactly one of each when the module the  *)
(* message names can be imported, none when it cannot, and then the run    *)
(* halts with an error.  A retry that fails, with the same failure or any  *)
(* other, halts the run with an error.  A run never starts more than two   *)
(* deserializations.                                                       *)
(***************************************************************************)
C3_ShimRetryBound ==
    /\ attempts <= 2
    /\ placeholders <= 1
    /\ attempts = 2 <=> placeholders = 1
    /\ placeholders = 1 => m.found
    /\ (m.found /\ pc # "shim") =>
          IF m.mod \in ImportableModules
          THEN placeholders = 1 /\ attempts = 2
          ELSE placeholders = 0 /\ attempts = 1 /\ HaltedWithError
    /\ (attempts = 2 /\ ~model.loaded) => HaltedWithError

\* the retry failed with the failure the first attempt had
C3_Witness ==
    /\ disk.artifact = Artifact(<< NestedHelper >>, "ok")
    /\ pc = "stopped"
    /\ attempts = 2
    /\ placeholders = 1
    /\ EndsWith(LastShown.text, CantGetAttribute(NestedHelper))

(***************************************************************************)
(* C4 -- startup failures are fatal.  A script run that shows the form,    *)
(* or predicts, holds a model that was deserialized in this run from the   *)
(* selected file; a run whose load failed has halted with an error, holds  *)
(* no model, and shows neither the form nor a prediction; no prediction is *)
(* ever attempted on None.                                                 *)
(***************************************************************************)
C4_StartupFailuresFatal ==
    /\ (FormReached \/ shown_data # << >> \/ Decisions # {}) =>
          /\ model.loaded
          /\ model.file = found
          /\ model.run = runs
          /\ attempts >= 1
    /\ (attempts >= 1 /\ ~model.loaded /\ pc \notin { "load", "shim" }) => pc = "stopped"
    /\ pc = "stopped" =>
          /\ HaltedWithError
          /\ ~model.loaded
          /\ ~Shows(FormRendered)
          /\ shown_data = << >>
          /\ Decisions = {}
    /\ caught # NoneTypeError

\* the shim retry failed and the run stopped
C4_Witness ==
    /\ pc = "stopped"
    /\ attempts = 2
    /\ ~model.loaded
    /\ disk.artifact = Artifact(<< RemainderCols, LossHelper >>, "ok")

(***************************************************************************)
(* C5 -- label duality.  After a successful prediction exactly one         *)
(* decision is shown: "likely to leave" when the label is the integer 1 or *)
(* the string "Yes", "likely to stay" for every other label.               *)
(***************************************************************************)
C5_LabelDuality ==
    Predicted =>
        /\ Cardinality(Decisions) = 1
        /\ \A k \in Decisions :
              IF prediction \in { IntLabel(1), StrLabel("Yes") }
              THEN /\ Contains(screen[k].text, "likely to leave")
                   /\ ~Contains(screen[k].text, "likely to stay")
              ELSE /\ Contains(screen[k].text, "likely to stay")
                   /\ ~Contains(screen[k].text, "likely to leave")

C5_Witness ==
    /\ Predicted
    /\ prediction = StrLabel("Yes")
    /\ Contains(LastShown.text, "likely to leave")

(***************************************************************************)
(* C6 -- per-request failures are recoverable.  When predict or            *)
(* predict_proba raises, the handler shows one error whose text ends with  *)
(* the exception's message, shows no decision and no record, leaves the    *)
(* model as it was loaded, and the script run ends idle; from idle the     *)
(* button can be clicked again.                                            *)
(***************************************************************************)
C6_RequestFailureRecoverable ==
    /\ [][(pc = "predict" /\ caught' # NoExc) =>
             /\ pc' = "idle"
             /\ model' = model
             /\ model.loaded
             /\ Len(screen') = Len(screen) + 1
             /\ screen'[Len(screen')].kind = "error"
             /\ EndsWith(screen'[Len(screen')].text, caught'.msg)
             /\ caught'.msg # << >>
             /\ shown_data' = << >>
             /\ \A k \in 1..Len(screen') :
                   /\ ~Contains(screen'[k].text, "likely to leave")
                   /\ ~Contains(screen'[k].text, "likely to stay")]_vars
    /\ [][pc = "predict" => pc' = "idle"]_vars
    /\ []((pc = "idle" /\ runs < MaxRuns) => ENABLED ClickPredict)

\* a prediction succeeds after an earlier one failed
C6_Witness ==
    /\ failures >= 1
    /\ Predicted
    /\ shown_data # << >>

(***************************************************************************)
(* C7 -- field echo.                                                       *)
(* As claimed: the echoed record has exactly 34 fields, 23 numeric or      *)
(* ordinal and 11 categorical, each equal to the widget's value.           *)
(***************************************************************************)
IntegerWidgets == { name \in WidgetNames : SpecOf(name).dtype = "int" }

StringWidgets == { name \in WidgetNames : SpecOf(name).dtype = "str" }

NumericColumns(frame) == { col \in DOMAIN frame : ColumnVar(col) \in IntegerWidgets }

CategoricalColumns(frame) == { col \in DOMAIN frame : ColumnVar(col) \in StringWidgets }

C7_Echo34Fields ==
    shown_data # << >> =>
        /\ Cardinality(DOMAIN shown_data[1]) = 34
        /\ Cardinality(NumericColumns(shown_data[1])) = 23
        /\ Cardinality(CategoricalColumns(shown_data[1])) = 11
        /\ \A col \in DOMAIN shown_data[1] : shown_data[1][col] = widgets[col]

(***************************************************************************)
(* C7, amended -- the record echoed after a successful prediction has      *)
(* exactly 30 fields, 23 numeric or ordinal and 7 categorical, one per     *)
(* widget, each equal to the widget's current value (Age = 45 and          *)
(* OverTime = "Yes" with every other field at its default).                *)
(***************************************************************************)
C7_FieldEcho ==
    shown_data # << >> =>
        /\ Len(shown_data) = 1
        /\ DOMAIN shown_data[1] = WidgetNames
        /\ Cardinality(DOMAIN shown_data[1]) = 30
        /\ Cardinality(NumericColumns(shown_data[1])) = 23
        /\ Cardinality(CategoricalColumns(shown_data[1])) = 7
        /\ \A col \in DOMAIN shown_data[1] : shown_data[1][col] = widgets[col]
        /\ widgets = [DefaultWidgets EXCEPT !["Age"] = 45] =>
              /\ shown_data[1]["Age"] = 45
              /\ shown_data[1]["OverTime"] = "Yes"
              /\ \A col \in WidgetNames \ { "Age" } : shown_data[1][col] = DefaultValue(col)

C7_Witness ==
    /\ Predicted
    /\ shown_data # << >>
    /\ widgets["Age"] = 45
    /\ widgets["OverTime"] = "Yes"
    /\ shown_data[1]["Age"] = 45

(***************************************************************************)
(* C8 -- resolve-once.  As claimed: in one process the candidate search    *)
(* and the deserialization are executed once, before the first form, and   *)
(* the model in use is always the object that load produced.               *)
(***************************************************************************)
Searches == IF pc = "start" THEN runs - 1 ELSE runs

C8_ResolveOnce ==
    /\ Searches <= 1
    /\ model.loaded => model.run = 1

(***************************************************************************)
(* C9 -- probability display.  After a successful prediction the decision  *)
(* shows the second element of the probability vector with two decimals,   *)
(* for "leave" and for "stay" alike: [0.73, 0.27] shows "0.27",            *)
(* [0.4, 0.6] shows "0.60".                                                *)
(***************************************************************************)
TwoDecimals(thousandths) ==
    CASE thousandths = 270 -> "0.27"
      [] thousandths = 600 -> "0.60"
      [] thousandths = 125 -> "0.12"
      [] thousandths = 996 -> "1.00"
      [] thousandths = 730 -> "0.73"
      [] thousandths = 400 -> "0.40"
      [] thousandths = 875 -> "0.88"
      [] thousandths = 4 -> "0.00"

ShownNumbers(text) ==
    { text[k] : k \in { j \in 1..Len(text) : \E v \in ProbaVectors, i \in 1..2 : text[j] = TwoDecimals(v[i]) } }

C9_ProbabilityDisplay ==
    Predicted =>
        /\ ShownNumbers(LastShown.text) = { TwoDecimals(proba[2]) }
        /\ LastShown.text[4] = TwoDecimals(proba[2])
        /\ (proba = << 730, 270 >> /\ ~IsLeave(prediction)) =>
              /\ Contains(LastShown.text, "likely to stay")
              /\ Contains(LastShown.text, "0.27")
        /\ (proba = << 400, 600 >> /\ prediction = IntLabel(1)) =>
              /\ Contains(LastShown.text, "likely to leave")
              /\ Contains(LastShown.text, "0.60")

C9_Witness ==
    /\ Predicted
    /\ proba = << 730, 270 >>
    /\ prediction = StrLabel("No")
    /\ Contains(LastShown.text, "likely to stay")
    /\ Contains(LastShown.text, "0.27")

(***************************************************************************)
(* C10 -- the shim is reachable only on the .joblib path.  When the        *)
(* selected file does not end in ".joblib" it is deserialized with pickle, *)
(* once; no placeholder is registered and nothing is retried; any failure, *)
(* a missing attribute that matches the pattern included, halts the run    *)
(* with an error.                                                          *)
(***************************************************************************)
C10_ShimOnlyOnJoblib ==
    (found # None /\ ~endswith(found, ".joblib")) =>
        /\ attempts <= 1
        /\ placeholders = 0
        /\ pc # "shim"
        /\ ~m.found
        /\ ~Shows(ShimWarning(RemainderCols.attr, RemainderCols.mod))
        /\ model.loaded => model.loader = "pickle"
        /\ (attempts = 1 /\ ~model.loaded) =>
              /\ HaltedWithError
              /\ LastShown = LoadFailed(found, Deserialize(disk.artifact, {}).exc)

\* a .pkl artifact whose failure matches the shim's pattern
C10_Witness ==
    /\ found = FileName("employee-attrition", ".pkl")
    /\ disk.artifact = Artifact(<< RemainderCols >>, "ok")
    /\ pc = "stopped"
    /\ attempts = 1
    /\ re_search(SubSeq(LastShown.text, 4, Len(LastShown.text))).found

====
